---- MODULE Spec2Model ----
(***************************************************************************)
(* Model of the greeting operator (cmd/greeting-operator/main.go).         *)
(*                                                                         *)
(* A process invocation (run) reads the command-line flags, builds the     *)
(* GreetingOperatorConfig, constructs the GreetingOperator and calls       *)
(* Start, which issues the cluster API calls of createNamespace,           *)
(* createDeployment and createService one after the other.  Every API call *)
(* is one blocking round trip and is one step of the model; the response   *)
(* of the cluster API is drawn from the responses the API can give in the  *)
(* current cluster state.                                                  *)
(***************************************************************************)
EXTENDS Integers, Sequences, FiniteSets, TLC

(***************************************************************************)
(* Processes.  Spec runs one provisioner process, again and again.         *)
(***************************************************************************)
Procs == {"p1", "p2"}
SeqProcs == {"p1"}

(***************************************************************************)
(* The flag values a process may be started with (main, the cli flags).    *)
(***************************************************************************)
DefaultImage == "greeting:latest"
DefaultPort == 80
DefaultNamespace == "default"
DefaultReplicas == 1
DefaultName == "anonymous"

Flag(i, p, n, r, d) == [image |-> i, port |-> p, namespace |-> n, replicas |-> r, name |-> d]

FlagSets ==
  { Flag(DefaultImage, DefaultPort, DefaultNamespace, DefaultReplicas, DefaultName),
    Flag("greeting:latest", 80, "default", 1, "Foo Bar"),
    Flag("greeting:latest", 80, "default", 3, "Foo Bar"),
    Flag("greeting:v2", 8080, "prod", 3, "anonymous") }

NamespaceNames == {f.namespace : f \in FlagSets}

(***************************************************************************)
(* Go values.                                                              *)
(***************************************************************************)
\* the zero value of a Go int: a struct field no literal sets
ZeroInt == 0

\* a nil error; an error is the sequence of its message parts, outermost first
nil == << >>

\* fmt.Errorf("<prefix>: %w", err)
Errorf(prefix, err) == <<prefix>> \o err

\* the error value of an API status reason
StatusError(reason) == <<reason>>

\* kerror.IsAlreadyExists
IsAlreadyExists(resp) == resp = "AlreadyExists"

(***************************************************************************)
(* run builds the configuration from the flags; NewGreetingOperator copies *)
(* it into the operator.                                                   *)
(***************************************************************************)
\* ConfigOfFlags with Port read from the port flag
ConfigOfFlags_WithPort(f) ==
  [Image |-> f.image, Port |-> f.port, Namespace |-> f.namespace,
   Replicas |-> f.replicas, Name |-> f.name]

\* run: the GreetingOperatorConfig literal.  Port is not among the fields
\* the literal sets, so it keeps its zero value.
ConfigOfFlags(f) ==
  [Image |-> f.image, Port |-> ZeroInt, Namespace |-> f.namespace,
   Replicas |-> f.replicas, Name |-> f.name]

\* NewGreetingOperator: the GreetingOperator literal
NewGreetingOperator(config) ==
  [image |-> config.Image, port |-> config.Port, namespace |-> config.Namespace,
   replicas |-> config.Replicas, name |-> config.Name]

(***************************************************************************)
(* The resources the operator submits.                                     *)
(***************************************************************************)
AppLabels == [app |-> "greeting"]
ContainerPort == 80
ProbePort == 80
ProbeTimeoutSeconds == 3
HardReplicas == 1
ServicePort == 80

\* createNamespace: the api.Namespace literal
NamespaceObj(o) == [name |-> o.namespace]

\* the resourceVersion of an ObjectMeta literal that does not set it (the Go
\* zero value, the empty string); the cluster numbers its versions from 1
NoResourceVersion == 0

\* createDeployment: objMeta
ObjMeta == [name |-> "greeting", labels |-> AppLabels, resourceVersion |-> NoResourceVersion]

\* PodTpl with the image fixed to the default instead of taken from the operator
PodTpl_FixedImage(o) ==
  [meta |-> ObjMeta,
   containers |-> << [name |-> "greeting",
                      image |-> DefaultImage,
                      ports |-> << [name |-> "http", protocol |-> "TCP",
                                    containerPort |-> ContainerPort] >>,
                      env |-> << [name |-> "NAME", value |-> o.name] >>,
                      livenessProbe |-> [path |-> "/health", port |-> ProbePort,
                                         timeoutSeconds |-> ProbeTimeoutSeconds],
                      imagePullPolicy |-> "Never"] >>,
   restartPolicy |-> "Always"]

\* createDeployment: podTpl
PodTpl(o) ==
  [meta |-> ObjMeta,
   containers |-> << [name |-> "greeting",
                      image |-> o.image,
                      ports |-> << [name |-> "http", protocol |-> "TCP",
                                    containerPort |-> ContainerPort] >>,
                      env |-> << [name |-> "NAME", value |-> o.name] >>,
                      livenessProbe |-> [path |-> "/health", port |-> ProbePort,
                                         timeoutSeconds |-> ProbeTimeoutSeconds],
                      imagePullPolicy |-> "Never"] >>,
   restartPolicy |-> "Always"]

\* DeploymentObj with a selector that is not the label of the pod template
DeploymentObj_OtherSelector(o) ==
  [meta |-> ObjMeta,
   namespace |-> o.namespace,
   spec |-> [replicas |-> HardReplicas,
             selector |-> [app |-> "greeting-operator"],
             template |-> PodTpl(o)]]

\* createDeployment: greetingDeployment (var replicas int32 = 1)
DeploymentObj(o) ==
  [meta |-> ObjMeta,
   namespace |-> o.namespace,
   spec |-> [replicas |-> HardReplicas,
             selector |-> AppLabels,
             template |-> PodTpl(o)]]

\* createService: service
ServiceObj(o) ==
  [meta |-> [name |-> "greeting", resourceVersion |-> NoResourceVersion],
   namespace |-> o.namespace,
   spec |-> [selector |-> AppLabels,
             type |-> "LoadBalancer",
             ports |-> << [name |-> "http", protocol |-> "TCP",
                           port |-> ServicePort, targetPort |-> o.port] >>]]

(***************************************************************************)
(* The cluster API, as the operator's calls see it.                        *)
(***************************************************************************)
\* a resource the cluster does not hold, and one it holds.  uid stands for the
\* identity the cluster gives a resource when it creates it: the number of
\* times a resource of this kind and name has been created.
\* rv is the resourceVersion of the stored resource, which the cluster changes
\* with every write that changes the resource; foreign says that the stored
\* resource has fields another actor set, which are no part of obj.
Absent == [present |-> FALSE, uid |-> 0, rv |-> 0, foreign |-> FALSE]
Stored(obj, uid, rv) == [present |-> TRUE, uid |-> uid, rv |-> rv, foreign |-> FALSE, obj |-> obj]

\* the highest resourceVersion the model lets a resource reach
MaxResourceVersion == 3

\* the cluster's defaulting of a submitted service: a port whose targetPort is
\* not set (0) targets the port itself
DefaultedService(svc) ==
  [svc EXCEPT !.spec.ports =
     [i \in DOMAIN svc.spec.ports |->
        IF svc.spec.ports[i].targetPort = 0
          THEN [svc.spec.ports[i] EXCEPT !.targetPort = svc.spec.ports[i].port]
          ELSE svc.spec.ports[i]]]

\* the errors a create may return besides AlreadyExists, and an update
CreateFaults == {"ConnectionError", "ValidationError", "ContextCanceled"}
UpdateFaults == {"ConnectionError", "ConflictOnUpdate", "ContextCanceled"}

\* responses of Create on a resource whose stored state is s
CreateResponses(s) == (IF s.present THEN {"AlreadyExists"} ELSE {"OK"}) \cup CreateFaults

\* responses of Update on a resource whose stored state is s
UpdateResponses(s) == (IF s.present THEN {"OK"} ELSE {"NotFound"}) \cup UpdateFaults

\* the stored state after Create of obj answered resp
AfterCreate(s, obj, resp) == IF resp = "OK" THEN Stored(obj, s.uid + 1, 1) ELSE s

\* the stored state after Update with obj answered resp: a full replace, which
\* is a new version of the resource unless it changes nothing
AfterUpdate(s, obj, resp) ==
  IF resp = "OK"
    THEN IF s.obj = obj /\ ~s.foreign THEN s ELSE Stored(obj, s.uid, s.rv + 1)
    ELSE s

EmptyCluster ==
  [namespaces |-> [n \in NamespaceNames |-> Absent],
   deployments |-> [n \in NamespaceNames |-> Absent],
   services |-> [n \in NamespaceNames |-> Absent]]

(***************************************************************************)
(* State.                                                                  *)
(***************************************************************************)
VARIABLES
  cluster,   \* the resources the cluster stores, by kind and namespace
  pc,        \* per process: where it is in run/Start
  flags,     \* per process: the flags of its current invocation
  op,        \* per process: the GreetingOperator
  calls,     \* per process: the API calls of the current invocation, in order
  startRet,  \* per process: what Start returned
  runRet,    \* per process: what run returned
  before,    \* per process: the cluster when the current invocation started
  prev       \* per process: the summary of its previous invocation

vars == <<cluster, pc, flags, op, calls, startRet, runRet, before, prev>>

NotCalled == <<"(not called)">>
NotReturned == <<"(not returned)">>
NoOp == [image |-> "", port |-> ZeroInt, namespace |-> "", replicas |-> 0, name |-> ""]
NoFlags == Flag("", 0, "", 0, "")
NoRun == [ran |-> FALSE]

\* a call of the log: met is the stored resource the call found
Call(kind, verb, obj, resp, met) ==
  [kind |-> kind, verb |-> verb, obj |-> obj, resp |-> resp, met |-> met]

\* a response that is an error of the API and not the tolerated AlreadyExists
IsFault(resp) == resp # "OK" /\ ~IsAlreadyExists(resp)

\* the summary of a finished invocation; of an error Start returned it keeps
\* the prefix, which names the call that failed
Summary(p) ==
  [ran |-> TRUE, flags |-> flags[p],
   startRet |-> IF Len(startRet[p]) > 1 THEN <<Head(startRet[p])>> ELSE startRet[p],
   fromEmpty |-> (before[p] = EmptyCluster),
   clean |-> (\A i \in 1..Len(calls[p]) : ~IsFault(calls[p][i].resp)),
   after |-> cluster]

Init ==
  /\ cluster = EmptyCluster
  /\ pc = [p \in Procs |-> "idle"]
  /\ flags = [p \in Procs |-> NoFlags]
  /\ op = [p \in Procs |-> NoOp]
  /\ calls = [p \in Procs |-> << >>]
  /\ startRet = [p \in Procs |-> NotCalled]
  /\ runRet = [p \in Procs |-> NotReturned]
  /\ before = [p \in Procs |-> EmptyCluster]
  /\ prev = [p \in Procs |-> NoRun]

(***************************************************************************)
(* run: a process invocation up to the call of Start.                      *)
(***************************************************************************)
\* rest.InClusterConfig / kubernetes.NewForConfig: the construction succeeds or not
ConstructOutcomes == {"ok", "in cluster config", "new k8s client"}

Run(p) ==
  /\ pc[p] \in {"idle", "done"}
  /\ \E f \in FlagSets, c \in ConstructOutcomes :
       /\ flags' = [flags EXCEPT ![p] = f]
       /\ calls' = [calls EXCEPT ![p] = << >>]
       /\ before' = [before EXCEPT ![p] = cluster]
       /\ prev' = [prev EXCEPT ![p] = IF pc[p] = "done" THEN Summary(p) ELSE @]
       /\ IF c = "ok"
            THEN /\ op' = [op EXCEPT ![p] = NewGreetingOperator(ConfigOfFlags(f))]
                 /\ pc' = [pc EXCEPT ![p] = "createNamespace"]
                 /\ startRet' = [startRet EXCEPT ![p] = NotReturned]
                 /\ runRet' = [runRet EXCEPT ![p] = NotReturned]
            ELSE /\ op' = [op EXCEPT ![p] = NoOp]
                 /\ pc' = [pc EXCEPT ![p] = "done"]
                 /\ startRet' = [startRet EXCEPT ![p] = NotCalled]
                 /\ runRet' = [runRet EXCEPT ![p] =
                                 Errorf("creating operator", Errorf(c, StatusError("ConfigError")))]
  /\ UNCHANGED cluster

(***************************************************************************)
(* Start: the three stages.  Return(p, err) is a stage returning err to    *)
(* Start, which returns it to run unless it is nil and a stage is left.    *)
(***************************************************************************)
\* run: wraps what Start returned
RunReturn(err) == IF err = nil THEN nil ELSE Errorf("start operator", err)

\* Start returns err
StartReturns(p, err) ==
  /\ pc' = [pc EXCEPT ![p] = "done"]
  /\ startRet' = [startRet EXCEPT ![p] = err]
  /\ runRet' = [runRet EXCEPT ![p] = RunReturn(err)]

\* Start goes on to the call at label next
Goto(p, next) ==
  /\ pc' = [pc EXCEPT ![p] = next]
  /\ UNCHANGED <<startRet, runRet>>

\* CreateNamespace with the error of the create dropped
CreateNamespace_IgnoresError(p) ==
  /\ pc[p] = "createNamespace"
  /\ LET ns == op[p].namespace
         obj == NamespaceObj(op[p])
     IN \E resp \in CreateResponses(cluster.namespaces[ns]) :
          /\ calls' = [calls EXCEPT ![p] = Append(@, Call("namespace", "create", obj, resp, cluster.namespaces[ns]))]
          /\ cluster' = [cluster EXCEPT !.namespaces[ns] = AfterCreate(@, obj, resp)]
          /\ Goto(p, "createDeployment")
  /\ UNCHANGED <<flags, op, before, prev>>

\* CreateNamespace with AlreadyExists returned like any other error
CreateNamespace_Strict(p) ==
  /\ pc[p] = "createNamespace"
  /\ LET ns == op[p].namespace
         obj == NamespaceObj(op[p])
     IN \E resp \in CreateResponses(cluster.namespaces[ns]) :
          /\ calls' = [calls EXCEPT ![p] = Append(@, Call("namespace", "create", obj, resp, cluster.namespaces[ns]))]
          /\ cluster' = [cluster EXCEPT !.namespaces[ns] = AfterCreate(@, obj, resp)]
          /\ IF resp # "OK"
               THEN StartReturns(p, Errorf("create namespace", StatusError(resp)))
               ELSE Goto(p, "createDeployment")
  /\ UNCHANGED <<flags, op, before, prev>>

\* createNamespace: Namespaces().Create and the handling of its error
CreateNamespace(p) ==
  /\ pc[p] = "createNamespace"
  /\ LET ns == op[p].namespace
         obj == NamespaceObj(op[p])
     IN \E resp \in CreateResponses(cluster.namespaces[ns]) :
          /\ calls' = [calls EXCEPT ![p] = Append(@, Call("namespace", "create", obj, resp, cluster.namespaces[ns]))]
          /\ cluster' = [cluster EXCEPT !.namespaces[ns] = AfterCreate(@, obj, resp)]
          /\ IF resp # "OK" /\ ~IsAlreadyExists(resp)
               THEN StartReturns(p, Errorf("create namespace", StatusError(resp)))
               ELSE Goto(p, "createDeployment")
  /\ UNCHANGED <<flags, op, before, prev>>

\* CreateDeployment with AlreadyExists returned like any other error
CreateDeployment_Strict(p) ==
  /\ pc[p] = "createDeployment"
  /\ LET ns == op[p].namespace
         obj == DeploymentObj(op[p])
     IN \E resp \in CreateResponses(cluster.deployments[ns]) :
          /\ calls' = [calls EXCEPT ![p] = Append(@, Call("deployment", "create", obj, resp, cluster.deployments[ns]))]
          /\ cluster' = [cluster EXCEPT !.deployments[ns] = AfterCreate(@, obj, resp)]
          /\ IF resp # "OK"
               THEN StartReturns(p, Errorf("create deployment", StatusError(resp)))
               ELSE Goto(p, "createService")
  /\ UNCHANGED <<flags, op, before, prev>>

\* createDeployment: Deployments(ns).Create and the handling of its error
CreateDeployment(p) ==
  /\ pc[p] = "createDeployment"
  /\ LET ns == op[p].namespace
         obj == DeploymentObj(op[p])
     IN \E resp \in CreateResponses(cluster.deployments[ns]) :
          /\ calls' = [calls EXCEPT ![p] = Append(@, Call("deployment", "create", obj, resp, cluster.deployments[ns]))]
          /\ cluster' = [cluster EXCEPT !.deployments[ns] = AfterCreate(@, obj, resp)]
          /\ IF resp # "OK"
               THEN IF ~IsAlreadyExists(resp)
                      THEN StartReturns(p, Errorf("create deployment", StatusError(resp)))
                      ELSE Goto(p, "updateDeployment")
               ELSE Goto(p, "createService")
  /\ UNCHANGED <<flags, op, before, prev>>

\* UpdateDeployment that keeps the fields other actors set on the stored
\* deployment (a read-merge-write)
UpdateDeployment_Merges(p) ==
  /\ pc[p] = "updateDeployment"
  /\ cluster.deployments[op[p].namespace].rv < MaxResourceVersion
  /\ LET ns == op[p].namespace
         obj == DeploymentObj(op[p])
     IN \E resp \in UpdateResponses(cluster.deployments[ns]) :
          /\ calls' = [calls EXCEPT ![p] = Append(@, Call("deployment", "update", obj, resp, cluster.deployments[ns]))]
          /\ cluster' = [cluster EXCEPT !.deployments[ns] =
                           [AfterUpdate(@, obj, resp) EXCEPT !.foreign = @ \/ cluster.deployments[ns].foreign]]
          /\ IF resp # "OK"
               THEN StartReturns(p, Errorf("update deployment", StatusError(resp)))
               ELSE Goto(p, "createService")
  /\ UNCHANGED <<flags, op, before, prev>>

\* UpdateDeployment with the error of the update dropped
UpdateDeployment_IgnoresError(p) ==
  /\ pc[p] = "updateDeployment"
  /\ cluster.deployments[op[p].namespace].rv < MaxResourceVersion
  /\ LET ns == op[p].namespace
         obj == DeploymentObj(op[p])
     IN \E resp \in UpdateResponses(cluster.deployments[ns]) :
          /\ calls' = [calls EXCEPT ![p] = Append(@, Call("deployment", "update", obj, resp, cluster.deployments[ns]))]
          /\ cluster' = [cluster EXCEPT !.deployments[ns] = AfterUpdate(@, obj, resp)]
          /\ Goto(p, "createService")
  /\ UNCHANGED <<flags, op, before, prev>>

\* createDeployment, alreadyExists: Deployments(ns).Update and the handling of its error
UpdateDeployment(p) ==
  /\ pc[p] = "updateDeployment"
  /\ cluster.deployments[op[p].namespace].rv < MaxResourceVersion
  /\ LET ns == op[p].namespace
         obj == DeploymentObj(op[p])
     IN \E resp \in UpdateResponses(cluster.deployments[ns]) :
          /\ calls' = [calls EXCEPT ![p] = Append(@, Call("deployment", "update", obj, resp, cluster.deployments[ns]))]
          /\ cluster' = [cluster EXCEPT !.deployments[ns] = AfterUpdate(@, obj, resp)]
          /\ IF resp # "OK"
               THEN StartReturns(p, Errorf("update deployment", StatusError(resp)))
               ELSE Goto(p, "createService")
  /\ UNCHANGED <<flags, op, before, prev>>

\* CreateService that deletes the deployment of the run when the create fails
CreateService_RollsBack(p) ==
  /\ pc[p] = "createService"
  /\ LET ns == op[p].namespace
         obj == ServiceObj(op[p])
     IN \E resp \in CreateResponses(cluster.services[ns]) :
          /\ calls' = [calls EXCEPT ![p] = Append(@, Call("service", "create", obj, resp, cluster.services[ns]))]
          /\ IF resp # "OK"
               THEN IF ~IsAlreadyExists(resp)
                      THEN /\ cluster' = [cluster EXCEPT !.deployments[ns] = Absent]
                           /\ StartReturns(p, Errorf("create service", StatusError(resp)))
                      ELSE /\ UNCHANGED cluster
                           /\ Goto(p, "updateService")
               ELSE /\ cluster' = [cluster EXCEPT !.services[ns] = AfterCreate(@, DefaultedService(obj), resp)]
                    /\ StartReturns(p, nil)
  /\ UNCHANGED <<flags, op, before, prev>>

\* CreateService with AlreadyExists taken as done, without the update
CreateService_NoFallback(p) ==
  /\ pc[p] = "createService"
  /\ LET ns == op[p].namespace
         obj == ServiceObj(op[p])
     IN \E resp \in CreateResponses(cluster.services[ns]) :
          /\ calls' = [calls EXCEPT ![p] = Append(@, Call("service", "create", obj, resp, cluster.services[ns]))]
          /\ cluster' = [cluster EXCEPT !.services[ns] = AfterCreate(@, DefaultedService(obj), resp)]
          /\ IF resp # "OK" /\ ~IsAlreadyExists(resp)
               THEN StartReturns(p, Errorf("create service", StatusError(resp)))
               ELSE StartReturns(p, nil)
  /\ UNCHANGED <<flags, op, before, prev>>

\* createService: Services(ns).Create and the handling of its error
CreateService(p) ==
  /\ pc[p] = "createService"
  /\ LET ns == op[p].namespace
         obj == ServiceObj(op[p])
     IN \E resp \in CreateResponses(cluster.services[ns]) :
          /\ calls' = [calls EXCEPT ![p] = Append(@, Call("service", "create", obj, resp, cluster.services[ns]))]
          /\ cluster' = [cluster EXCEPT !.services[ns] = AfterCreate(@, DefaultedService(obj), resp)]
          /\ IF resp # "OK"
               THEN IF ~IsAlreadyExists(resp)
                      THEN StartReturns(p, Errorf("create service", StatusError(resp)))
                      ELSE Goto(p, "updateService")
               ELSE StartReturns(p, nil)
  /\ UNCHANGED <<flags, op, before, prev>>

\* UpdateService that tries again when the update fails
UpdateService_Retries(p) ==
  /\ pc[p] = "updateService"
  /\ cluster.services[op[p].namespace].rv < MaxResourceVersion
  /\ Len(calls[p]) < 6
  /\ LET ns == op[p].namespace
         obj == ServiceObj(op[p])
     IN \E resp \in UpdateResponses(cluster.services[ns]) :
          /\ calls' = [calls EXCEPT ![p] = Append(@, Call("service", "update", obj, resp, cluster.services[ns]))]
          /\ cluster' = [cluster EXCEPT !.services[ns] = AfterUpdate(@, DefaultedService(obj), resp)]
          /\ IF resp # "OK"
               THEN Goto(p, "updateService")
               ELSE StartReturns(p, nil)
  /\ UNCHANGED <<flags, op, before, prev>>

\* UpdateService with the error prefix of the deployment update
UpdateService_WrongPrefix(p) ==
  /\ pc[p] = "updateService"
  /\ cluster.services[op[p].namespace].rv < MaxResourceVersion
  /\ LET ns == op[p].namespace
         obj == ServiceObj(op[p])
     IN \E resp \in UpdateResponses(cluster.services[ns]) :
          /\ calls' = [calls EXCEPT ![p] = Append(@, Call("service", "update", obj, resp, cluster.services[ns]))]
          /\ cluster' = [cluster EXCEPT !.services[ns] = AfterUpdate(@, DefaultedService(obj), resp)]
          /\ IF resp # "OK"
               THEN StartReturns(p, Errorf("update deployment", StatusError(resp)))
               ELSE StartReturns(p, nil)
  /\ UNCHANGED <<flags, op, before, prev>>

\* createService, alreadyExists: Services(ns).Update and the handling of its error
UpdateService(p) ==
  /\ pc[p] = "updateService"
  /\ cluster.services[op[p].namespace].rv < MaxResourceVersion
  /\ LET ns == op[p].namespace
         obj == ServiceObj(op[p])
     IN \E resp \in UpdateResponses(cluster.services[ns]) :
          /\ calls' = [calls EXCEPT ![p] = Append(@, Call("service", "update", obj, resp, cluster.services[ns]))]
          /\ cluster' = [cluster EXCEPT !.services[ns] = AfterUpdate(@, DefaultedService(obj), resp)]
          /\ IF resp # "OK"
               THEN StartReturns(p, Errorf("update service", StatusError(resp)))
               ELSE StartReturns(p, nil)
  /\ UNCHANGED <<flags, op, before, prev>>

\* one step of process p
Step(p) ==
  \/ Run(p)
  \/ CreateNamespace(p)
  \/ CreateDeployment(p)
  \/ UpdateDeployment(p)
  \/ CreateService(p)
  \/ UpdateService(p)

Next == \E p \in SeqProcs : Step(p)

Spec == Init /\ [][Next]_vars

(***************************************************************************)
(* Two provisioner processes, each invoked once, their calls interleaved.  *)
(***************************************************************************)
RunOnce(p) == pc[p] = "idle" /\ Run(p)

StepOnce(p) ==
  \/ RunOnce(p)
  \/ CreateNamespace(p)
  \/ CreateDeployment(p)
  \/ UpdateDeployment(p)
  \/ CreateService(p)
  \/ UpdateService(p)

NextConc == \E p \in Procs : StepOnce(p)

SpecConc == Init /\ [][NextConc]_vars

(***************************************************************************)
(* Another actor of the cluster: it sets fields of its own on a deployment *)
(* or a service the cluster holds, at any moment, also between the Create  *)
(* and the Update of a run.  SpecExternal is the two processes and it.     *)
(***************************************************************************)
ExternalModify(kind, n) ==
  /\ cluster[kind][n].present
  /\ ~cluster[kind][n].foreign
  /\ cluster[kind][n].rv < MaxResourceVersion
  /\ cluster' = [cluster EXCEPT ![kind][n] = [@ EXCEPT !.foreign = TRUE, !.rv = @ + 1]]
  /\ UNCHANGED <<pc, flags, op, calls, startRet, runRet, before, prev>>

External == \E kind \in {"deployments", "services"}, n \in NamespaceNames : ExternalModify(kind, n)

NextExternal == NextConc \/ External

SpecExternal == Init /\ [][NextExternal]_vars

(***************************************************************************)
(* Vocabulary of the properties.                                           *)
(***************************************************************************)
CallIdx(p) == 1..Len(calls[p])

\* the indices of the calls of process p for a kind (and a verb)
KindIdx(p, kind) == {i \in CallIdx(p) : calls[p][i].kind = kind}
VerbIdx(p, kind, verb) == {i \in KindIdx(p, kind) : calls[p][i].verb = verb}

\* Start has returned, and what it returned is an error
IsError(err) == err # nil /\ err # NotCalled /\ err # NotReturned
Returned(p) == pc[p] = "done" /\ startRet[p] # NotCalled
Failed(p) == Returned(p) /\ IsError(startRet[p])
Succeeded(p) == Returned(p) /\ startRet[p] = nil

\* the position of a stage in the pipeline
StageRank(kind) == CASE kind = "namespace" -> 1 [] kind = "deployment" -> 2 [] kind = "service" -> 3

\* C1: in every run of Start the API calls come in the stage order namespace,
\* deployment, service: a deployment call is preceded by the namespace create
\* call answered with success or AlreadyExists, and a service call is preceded
\* by a deployment call (create or update) answered with success.
C1_StageOrder ==
  \A p \in Procs :
    /\ \A i, j \in CallIdx(p) :
         i < j => StageRank(calls[p][i].kind) <= StageRank(calls[p][j].kind)
    /\ \A i \in KindIdx(p, "deployment") :
         \E j \in VerbIdx(p, "namespace", "create") :
           j < i /\ calls[p][j].resp \in {"OK", "AlreadyExists"}
    /\ \A i \in KindIdx(p, "service") :
         \E j \in KindIdx(p, "deployment") :
           j < i /\ calls[p][j].resp = "OK"

\* a run that went through all three stages, the deployment by its update
C1_Witness ==
  \E p \in Procs :
    /\ Len(calls[p]) = 5
    /\ calls[p][3].verb = "update" /\ calls[p][3].kind = "deployment"
    /\ calls[p][5].kind = "service"

\* C2: a fatal failure of the namespace create leaves the run without any
\* deployment or service call, a fatal failure of the deployment stage (create
\* or update) leaves it without any service call, and Start returns an error.
C2_FatalAborts ==
  \A p \in Procs :
    /\ (\E i \in KindIdx(p, "namespace") : IsFault(calls[p][i].resp))
         => /\ KindIdx(p, "deployment") = {}
            /\ KindIdx(p, "service") = {}
            /\ Failed(p)
    /\ (\E i \in KindIdx(p, "deployment") : IsFault(calls[p][i].resp))
         => /\ KindIdx(p, "service") = {}
            /\ Failed(p)

\* a run whose deployment update failed after the create found the deployment
C2_Witness ==
  \E p \in Procs :
    /\ Failed(p)
    /\ VerbIdx(p, "deployment", "update") # {}
    /\ IsFault(calls[p][Len(calls[p])].resp)
    /\ cluster.namespaces[op[p].namespace].present

\* C3: the namespace stage is one create call and nothing else; answered with
\* AlreadyExists it is a success and Start goes on to the deployment stage, any
\* other error is what Start returns, and a namespace that existed when the run
\* started is still the same stored object.
C3_NamespaceIdempotentCreate ==
  \A p \in Procs :
    /\ Cardinality(KindIdx(p, "namespace")) <= 1
    /\ KindIdx(p, "namespace") = VerbIdx(p, "namespace", "create")
    /\ \A i \in KindIdx(p, "namespace") :
         /\ IsAlreadyExists(calls[p][i].resp)
              => IF Len(calls[p]) = 1 THEN pc[p] = "createDeployment"
                                      ELSE calls[p][2].kind = "deployment"
         /\ IsFault(calls[p][i].resp)
              => /\ Failed(p)
                 /\ startRet[p] = Errorf("create namespace", StatusError(calls[p][i].resp))
    /\ pc[p] # "idle" =>
         \A n \in NamespaceNames :
           before[p].namespaces[n].present => cluster.namespaces[n] = before[p].namespaces[n]

\* the namespace create was answered AlreadyExists and Start is about to
\* create the deployment
C3_Witness ==
  \E p \in Procs :
    /\ pc[p] = "createDeployment"
    /\ Len(calls[p]) = 1
    /\ IsAlreadyExists(calls[p][1].resp)
    /\ before[p].namespaces[op[p].namespace].present

\* no call of the current run of p was answered with an error other than
\* AlreadyExists
Clean(p) == \A i \in CallIdx(p) : ~IsFault(calls[p][i].resp)

\* the only container of a submitted or stored deployment
Container(dep) == dep.spec.template.containers[1]

\* C4: when the deployment create is answered AlreadyExists the run issues
\* exactly one deployment update, and the deployment that update carries has
\* the configured replica count, the configured image and the configured port
\* as its container port.
C4_ConflictFallbackMatchesConfig ==
  \A p \in Procs :
    /\ Cardinality(VerbIdx(p, "deployment", "update")) <= 1
    /\ \A i \in VerbIdx(p, "deployment", "create") :
         (IsAlreadyExists(calls[p][i].resp) /\ pc[p] # "updateDeployment")
           => VerbIdx(p, "deployment", "update") = {i + 1}
    /\ \A i \in VerbIdx(p, "deployment", "update") :
         LET dep == calls[p][i].obj
         IN /\ dep.spec.replicas = flags[p].replicas
            /\ Len(dep.spec.template.containers) = 1
            /\ Container(dep).image = flags[p].image
            /\ Len(Container(dep).ports) = 1
            /\ Container(dep).ports[1].containerPort = flags[p].port

\* C5: the service stage is one create call; answered AlreadyExists it is
\* followed by exactly one update call carrying the same full service, and the
\* stage (and with it Start) succeeds iff that update does; a create error
\* other than AlreadyExists and an update error make Start return an error.
C5_ServiceCreateOrUpdate ==
  \A p \in Procs :
    LET cr == VerbIdx(p, "service", "create")
        up == VerbIdx(p, "service", "update")
    IN /\ Cardinality(cr) <= 1 /\ Cardinality(up) <= 1
       /\ KindIdx(p, "service") = cr \cup up
       /\ \A i \in cr :
            /\ calls[p][i].resp = "OK" => up = {} /\ Succeeded(p)
            /\ IsFault(calls[p][i].resp) => up = {} /\ Failed(p)
            /\ IsAlreadyExists(calls[p][i].resp) =>
                 IF up = {} THEN pc[p] = "updateService" ELSE up = {i + 1}
       /\ \A j \in up :
            /\ j - 1 \in cr /\ IsAlreadyExists(calls[p][j - 1].resp)
            /\ calls[p][j].obj = calls[p][j - 1].obj
            /\ calls[p][j].obj.namespace = flags[p].namespace
            /\ calls[p][j].obj.meta.name = "greeting"
            /\ calls[p][j].obj.spec.type = "LoadBalancer"
            /\ Returned(p)
            /\ Succeeded(p) <=> calls[p][j].resp = "OK"
            /\ Failed(p) <=> calls[p][j].resp # "OK"

\* a run that found the service, updated it and succeeded
C5_Witness ==
  \E p \in Procs :
    /\ Succeeded(p)
    /\ VerbIdx(p, "service", "update") # {}
    /\ calls[p][Len(calls[p])].resp = "OK"

\* C6: two runs with the same flags, the first on an empty cluster and the
\* second on the cluster the first left, no call answered with an error other
\* than AlreadyExists: both succeed, and the cluster after the second holds the
\* namespace, the deployment and the service it held after the first.
C6_Idempotence ==
  \A p \in Procs :
    ( /\ prev[p].ran /\ prev[p].startRet # NotCalled
      /\ prev[p].fromEmpty /\ prev[p].clean
      /\ flags[p] = prev[p].flags
      /\ before[p] = prev[p].after
      /\ Returned(p) /\ Clean(p) )
    => /\ prev[p].startRet = nil
       /\ startRet[p] = nil /\ runRet[p] = nil
       /\ cluster = prev[p].after
       /\ cluster.namespaces[flags[p].namespace].present
       /\ cluster.deployments[flags[p].namespace].present
       /\ cluster.services[flags[p].namespace].present

\* the second of two such runs has returned, having taken both update paths
C6_Witness ==
  \E p \in Procs :
    /\ prev[p].ran /\ prev[p].startRet = nil
    /\ prev[p].fromEmpty /\ prev[p].clean
    /\ flags[p] = prev[p].flags
    /\ before[p] = prev[p].after
    /\ Succeeded(p) /\ Clean(p)
    /\ Len(calls[p]) = 5

\* C7: a run with replicas = 3 on the cluster a successful run with
\* replicas = 1 (and otherwise the same flags) left succeeds, the stored
\* deployment then has 3 replicas, and the namespace is the object it was.
C7_RerunChangesReplicas ==
  \A p \in Procs :
    ( /\ prev[p].ran /\ prev[p].startRet = nil
      /\ prev[p].flags.replicas = 1
      /\ flags[p] = [prev[p].flags EXCEPT !.replicas = 3]
      /\ before[p] = prev[p].after
      /\ Returned(p) /\ Clean(p) )
    => /\ Succeeded(p)
       /\ cluster.deployments[flags[p].namespace].present
       /\ cluster.deployments[flags[p].namespace].obj.spec.replicas = 3
       /\ cluster.namespaces[flags[p].namespace] = before[p].namespaces[flags[p].namespace]

\* C8: every service the run submits has one port, named "http", with port 80
\* and the port flag as target port.
C8_ServiceTargetPort ==
  \A p \in Procs :
    \A i \in KindIdx(p, "service") :
      LET ports == calls[p][i].obj.spec.ports
      IN /\ Len(ports) = 1
         /\ ports[1].name = "http"
         /\ ports[1].port = 80
         /\ ports[1].targetPort = flags[p].port

\* C9: a run on an empty cluster with no call answered with an error succeeds
\* and leaves exactly the namespace of the namespace flag, in it the
\* deployment "greeting" with one container (image of the image flag, NAME of
\* the name flag, liveness path /health) and the load-balancer service
\* "greeting", and nothing in any other namespace.
C9_EmptyClusterScenario ==
  \A p \in Procs :
    (before[p] = EmptyCluster /\ Returned(p) /\ Clean(p))
    => /\ Succeeded(p) /\ runRet[p] = nil
       /\ \A n \in NamespaceNames :
            /\ cluster.namespaces[n].present <=> n = flags[p].namespace
            /\ cluster.deployments[n].present <=> n = flags[p].namespace
            /\ cluster.services[n].present <=> n = flags[p].namespace
       /\ LET n == flags[p].namespace
              dep == cluster.deployments[n].obj
              svc == cluster.services[n].obj
          IN /\ cluster.namespaces[n].obj.name = n
             /\ dep.meta.name = "greeting" /\ dep.namespace = n
             /\ Len(dep.spec.template.containers) = 1
             /\ Container(dep).image = flags[p].image
             /\ Len(Container(dep).env) = 1
             /\ Container(dep).env[1] = [name |-> "NAME", value |-> flags[p].name]
             /\ Container(dep).livenessProbe.path = "/health"
             /\ svc.meta.name = "greeting" /\ svc.namespace = n
             /\ svc.spec.type = "LoadBalancer"

\* the scenario of the specification: greeting:latest, default, "Foo Bar"
C9_Witness ==
  \E p \in Procs :
    /\ before[p] = EmptyCluster /\ Succeeded(p) /\ Clean(p)
    /\ flags[p] = Flag("greeting:latest", 80, "default", 1, "Foo Bar")
    /\ Len(calls[p]) = 3

\* the stage an error prefix of Start names
PrefixStage(prefix) ==
  CASE prefix = "create namespace" -> "namespace"
    [] prefix \in {"create deployment", "update deployment"} -> "deployment"
    [] prefix \in {"create service", "update service"} -> "service"
    [] OTHER -> "none"

\* the first call of the run answered with an error other than AlreadyExists
FirstFault(p) ==
  LET faults == {i \in CallIdx(p) : IsFault(calls[p][i].resp)}
  IN CHOOSE i \in faults : \A j \in faults : i <= j

\* C10: when Start returns an error, it is the error of the first call of the
\* run that was answered with an error other than AlreadyExists, under a prefix
\* that names the stage of that call.
C10_FirstErrorWithStagePrefix ==
  \A p \in Procs :
    Failed(p) =>
      /\ ~Clean(p)
      /\ Len(startRet[p]) = 2
      /\ Tail(startRet[p]) = StatusError(calls[p][FirstFault(p)].resp)
      /\ PrefixStage(Head(startRet[p])) = calls[p][FirstFault(p)].kind

\* Start returned the error of a failed service update
C10_Witness ==
  \E p \in Procs :
    /\ Failed(p)
    /\ Len(calls[p]) = 5
    /\ calls[p][5].resp = "ConflictOnUpdate"
    /\ calls[p][3].resp = "OK"

\* C11: a run with the flags of a preceding failed run, on the cluster that
\* run left, with no call answered with an error other than AlreadyExists,
\* succeeds and leaves the namespace, the deployment and the service in the
\* state the flags ask for (image, replica count, name, target port).
C11_RecoveryByRerun ==
  \A p \in Procs :
    ( /\ prev[p].ran /\ IsError(prev[p].startRet)
      /\ flags[p] = prev[p].flags
      /\ before[p] = prev[p].after
      /\ Returned(p) /\ Clean(p) )
    => /\ Succeeded(p)
       /\ LET n == flags[p].namespace
          IN /\ cluster.namespaces[n].present
             /\ cluster.deployments[n].present
             /\ cluster.services[n].present
             /\ cluster.namespaces[n].obj.name = n
             /\ Container(cluster.deployments[n].obj).image = flags[p].image
             /\ Container(cluster.deployments[n].obj).env[1].value = flags[p].name
             /\ cluster.deployments[n].obj.spec.replicas = flags[p].replicas
             /\ cluster.services[n].obj.spec.ports[1].targetPort = flags[p].port

\* C12: no retries.  A run issues at most one create per kind, at most one
\* update of the deployment and of the service and none of the namespace, five
\* calls at most; an update directly follows the create of its kind answered
\* AlreadyExists; a call answered with a fatal error is the last of the run.
C12_NoRetries ==
  \A p \in Procs :
    /\ Len(calls[p]) <= 5
    /\ \A k \in {"namespace", "deployment", "service"} :
         /\ Cardinality(VerbIdx(p, k, "create")) <= 1
         /\ Cardinality(VerbIdx(p, k, "update")) <= 1
         /\ KindIdx(p, k) = VerbIdx(p, k, "create") \cup VerbIdx(p, k, "update")
         /\ \A j \in VerbIdx(p, k, "update") :
              /\ k # "namespace"
              /\ j - 1 \in VerbIdx(p, k, "create")
              /\ IsAlreadyExists(calls[p][j - 1].resp)
    /\ \A i \in CallIdx(p) :
         IsFault(calls[p][i].resp) => i = Len(calls[p]) /\ pc[p] = "done"

\* a run that took both update paths and whose last update failed
C12_Witness ==
  \E p \in Procs :
    /\ Len(calls[p]) = 5
    /\ calls[p][3].verb = "update" /\ calls[p][3].resp = "OK"
    /\ calls[p][5].verb = "update" /\ IsFault(calls[p][5].resp)
    /\ pc[p] = "done"

\* C13: every update the run issues carries the resourceVersion of the stored
\* resource it is to replace.
C13_UpdateCarriesResourceVersion ==
  \A p \in Procs :
    \A k \in {"deployment", "service"} :
      \A i \in VerbIdx(p, k, "update") :
        calls[p][i].obj.meta.resourceVersion = calls[p][i].met.rv

\* the resource a call of kind k for namespace n is about, as stored
StoredOf(k, n) ==
  CASE k = "namespace" -> cluster.namespaces[n]
    [] k = "deployment" -> cluster.deployments[n]
    [] k = "service" -> cluster.services[n]

\* C15: a run issues creates and updates only, and when Start returns an error
\* (a cancelled context included) every resource a call of that run created or
\* updated is in the cluster as that call left it.
C15_NoRollback ==
  \A p \in Procs :
    /\ \A i \in CallIdx(p) : calls[p][i].verb \in {"create", "update"}
    /\ Failed(p) =>
         \A i \in CallIdx(p) :
           calls[p][i].resp = "OK" =>
             LET c == calls[p][i]
                 st == StoredOf(c.kind, op[p].namespace)
             IN /\ st.present
                /\ st.obj = c.obj
                /\ st.uid = IF c.verb = "create" THEN c.met.uid + 1 ELSE c.met.uid
                /\ ~st.foreign

\* the context was cancelled during the service create, after the run had
\* created the namespace and the deployment
C15_Witness ==
  \E p \in Procs :
    /\ Failed(p)
    /\ Len(calls[p]) = 3
    /\ calls[p][1].resp = "OK" /\ calls[p][2].resp = "OK"
    /\ calls[p][3].resp = "ContextCanceled"

\* C16: every deployment the run submits selects the labels of its own pod
\* template, {app: greeting}, and every service it submits selects them too.
C16_LabelConsistency ==
  \A p \in Procs :
    /\ \A i \in KindIdx(p, "deployment") :
         /\ calls[p][i].obj.spec.selector = [app |-> "greeting"]
         /\ calls[p][i].obj.spec.template.meta.labels = calls[p][i].obj.spec.selector
    /\ \A i \in KindIdx(p, "service") :
         calls[p][i].obj.spec.selector = [app |-> "greeting"]

\* a run that submitted the deployment twice and the service twice, with flags
\* other than the defaults
C16_Witness ==
  \E p \in Procs :
    /\ flags[p].namespace = "prod"
    /\ Cardinality(KindIdx(p, "deployment")) = 2
    /\ Cardinality(KindIdx(p, "service")) = 2

LastCall(p) == calls[p][Len(calls[p])]

\* C14: when an update of the deployment or of the service succeeds on a
\* stored resource that carries fields another actor set, the stored resource
\* is afterwards exactly the submitted one, the other actor's fields are gone,
\* and no error is returned.
C14_BlindReplace ==
  [][\A p \in Procs : \A k \in {"deployment", "service"} :
       ( /\ Len(calls'[p]) = Len(calls[p]) + 1
         /\ LastCall(p)'.kind = k
         /\ LastCall(p)'.verb = "update"
         /\ LastCall(p)'.resp = "OK"
         /\ StoredOf(k, op[p].namespace).foreign )
       => /\ ~StoredOf(k, op[p].namespace)'.foreign
          /\ StoredOf(k, op[p].namespace)'.obj =
               (IF k = "service" THEN DefaultedService(LastCall(p)'.obj) ELSE LastCall(p)'.obj)
          /\ StoredOf(k, op[p].namespace)'.rv = StoredOf(k, op[p].namespace).rv + 1
          /\ ~IsError(startRet'[p])]_vars

\* another actor modified the deployment between the Create answered
\* AlreadyExists and the Update, and the Update succeeded
C14_Witness ==
  \E p \in Procs :
    /\ Len(calls[p]) = 3
    /\ calls[p][2].kind = "deployment" /\ ~calls[p][2].met.foreign
    /\ calls[p][3].verb = "update" /\ calls[p][3].met.foreign
    /\ calls[p][3].resp = "OK"
    /\ ~cluster.deployments[op[p].namespace].foreign

\* the cluster a single run with flags f leaves of an empty cluster
SingleRunCluster(f) ==
  LET o == NewGreetingOperator(ConfigOfFlags(f))
      n == f.namespace
  IN [EmptyCluster EXCEPT
        !.namespaces[n] = Stored(NamespaceObj(o), 1, 1),
        !.deployments[n] = Stored(DeploymentObj(o), 1, 1),
        !.services[n] = Stored(DefaultedService(ServiceObj(o)), 1, 1)]

\* C18: two processes started once each with the same flags on an empty
\* cluster, no call answered with an error other than AlreadyExists: whatever
\* the interleaving, both succeed and the cluster is the one a single run
\* leaves (which is what a process that ran alone has left).
C18_ConcurrentRuns ==
  /\ \A p, q \in Procs :
       ( /\ p # q /\ flags[p] = flags[q]
         /\ Returned(p) /\ Clean(p)
         /\ Returned(q) /\ Clean(q) )
       => /\ Succeeded(p) /\ Succeeded(q)
          /\ cluster = SingleRunCluster(flags[p])
  /\ \A p \in Procs :
       ( /\ Returned(p) /\ Clean(p)
         /\ \A q \in Procs \ {p} : pc[q] = "idle" )
       => /\ Succeeded(p)
          /\ cluster = SingleRunCluster(flags[p])

\* both processes have returned; p1 won the race for the deployment and lost
\* the one for the service
C18_Witness ==
  /\ flags["p1"] = flags["p2"]
  /\ Succeeded("p1") /\ Succeeded("p2")
  /\ Clean("p1") /\ Clean("p2")
  /\ \E i \in VerbIdx("p1", "deployment", "create") : calls["p1"][i].resp = "OK"
  /\ VerbIdx("p2", "deployment", "update") # {}
  /\ VerbIdx("p1", "service", "update") # {}

====
